---- MODULE Spec2Model ----
(***************************************************************************)
(* Model of scripts/validate-skill.py: SkillValidator (folder structure,   *)
(* SKILL.md frontmatter parsing, frontmatter field checks, content checks) *)
(* and the drivers validate_skill, validate_all_skills and main.           *)
(*                                                                         *)
(* Text is modelled as a tuple of one-character strings.  A string value   *)
(* decoded from YAML is a record [t, s, n]: for t = "str" the text is s    *)
(* followed by n copies of the filler character "x" (so that strings of    *)
(* 65 and 1025 characters are values without being stored in full).        *)
(***************************************************************************)
EXTENDS Integers, Sequences, FiniteSets, TLC

(* ------------------------------ bounds --------------------------------- *)
MaxSegs == 4        \* segments (delimiters and delimiter-free texts) of a document
MaxEntries == 4     \* entries of the skills directory in an --all run
MaxOtherKeys == 1   \* frontmatter keys besides the four the validator reads

(* ------------------------- validation constants ------------------------ *)
MAX_LINES == 500
MAX_NAME_LENGTH == 64
MAX_DESCRIPTION_LENGTH == 1024

VALID_FRONTMATTER_KEYS ==
    { "name", "description", "allowed-tools", "disable-model-invocation",
      "user-invocable", "context", "agent", "hooks", "model", "argument-hint",
      "license", "metadata", "compatibility" }

(* ------------------------------- text ---------------------------------- *)
LowerAlnum ==
    { "a","b","c","d","e","f","g","h","i","j","k","l","m","n","o","p","q","r",
      "s","t","u","v","w","x","y","z","0","1","2","3","4","5","6","7","8","9" }

\* str.lower() on one character (the upper-case letters the inputs use)
LowerChar(c) ==
    CASE c = "B" -> "b" [] c = "I" -> "i" [] c = "N" -> "n" [] c = "U" -> "u"
      [] c = "W" -> "w" [] OTHER -> c

Lower(s) == [i \in 1..Len(s) |-> LowerChar(s[i])]

StartsWith(s, p) == Len(s) >= Len(p) /\ SubSeq(s, 1, Len(p)) = p

\* p in s
Contains(s, p) == \E i \in 1..(Len(s) - Len(p) + 1) : SubSeq(s, i, i + Len(p) - 1) = p

\* the text matches [a-z0-9]+(-[a-z0-9]+)* from its first to its last character
NameCore(s) ==
    /\ Len(s) > 0
    /\ \A i \in 1..Len(s) : s[i] \in LowerAlnum \/ s[i] = "-"
    /\ s[1] # "-"
    /\ s[Len(s)] # "-"
    /\ \A i \in 1..(Len(s) - 1) : ~(s[i] = "-" /\ s[i + 1] = "-")

\* NAME_PATTERN.match(s): `$` matches at the end and before a final newline
NamePatternMatch(s) ==
    \/ NameCore(s)
    \/ Len(s) > 0 /\ s[Len(s)] = "\n" /\ NameCore(SubSeq(s, 1, Len(s) - 1))

(* --------------------------- decoded values ---------------------------- *)
None == [t |-> "none", s |-> <<>>, n |-> 0]
Absent == [t |-> "absent", s |-> <<>>, n |-> 0]
PyStr(s) == [t |-> "str", s |-> s, n |-> 0]
Padded(s, n) == [t |-> "str", s |-> s, n |-> n]
PyInt(n) == [t |-> "int", s |-> <<>>, n |-> n]
PyBool(b) == [t |-> "bool", s |-> <<>>, n |-> IF b THEN 1 ELSE 0]
PyList(n) == [t |-> "list", s |-> <<>>, n |-> n]

\* the characters of a string value
Text(v) == v.s \o [i \in 1..v.n |-> "x"]

\* bool(v)
Truthy(v) ==
    CASE v.t = "str" -> Len(v.s) + v.n > 0
      [] v.t = "int" -> v.n # 0
      [] v.t = "bool" -> v.n = 1
      [] v.t = "list" -> v.n > 0
      [] OTHER -> FALSE

\* len(v) is defined
HasLen(v) == v.t \in {"str", "list"}
PyLen(v) == IF v.t = "str" THEN Len(v.s) + v.n ELSE v.n

(* ------------------------------ findings ------------------------------- *)
\* one message of the errors or warnings list: text m, the name or path a it
\* quotes, the frontmatter key or field k it quotes, the number n it quotes
Msg(m, a, k, n) == [m |-> m, a |-> a, k |-> k, n |-> n]

FolderMissingMsg(path) == Msg("Skill folder does not exist: ", path, "", 0)
NotADirectoryMsg(path) == Msg("Path is not a directory: ", path, "", 0)
SkillMdMissingMsg(path) == Msg("SKILL.md not found in ", path, "", 0)
FolderNameMsg(folder) == Msg("Folder name invalid", folder, "", 0)
LineCountMsg(n) == Msg("SKILL.md has n lines", <<>>, "", n)
NoFrontmatterMsg == Msg("Invalid or missing YAML frontmatter", <<>>, "", 0)
YamlErrorMsg == Msg("YAML parsing error: ", <<>>, "", 0)
UnknownKeyMsg(key) == Msg("Unknown frontmatter key: ", <<>>, key, 0)
NameTooLongMsg(name) == Msg("Name exceeds max length", name, "", MAX_NAME_LENGTH)
NameInvalidMsg(name) == Msg("Name invalid", name, "", 0)
NameMismatchMsg(name, folder) == Msg("Name doesn't match folder", name \o <<"/">> \o folder, "", 0)
NoNameMsg == Msg("No 'name' field in frontmatter (will use folder name)", <<>>, "", 0)
DescriptionTooLongMsg == Msg("Description exceeds max length", <<>>, "", MAX_DESCRIPTION_LENGTH)
NoUseWhenMsg == Msg("Description should include 'Use when...' trigger conditions", <<>>, "", 0)
FirstPersonMsg == Msg("Description should be in third person (avoid 'I' or 'We')", <<>>, "", 0)
NoDescriptionMsg == Msg("Missing required 'description' field", <<>>, "", 0)
NotBooleanMsg(field) == Msg("must be a boolean (true/false)", <<>>, field, 0)
MissingSectionMsg(section) == Msg("Missing recommended section: ", <<>>, section, 0)
DeepReferenceMsg == Msg("Deeply nested file references detected (avoid ../..)", <<>>, "", 0)

\* the accumulators of one validator and the exception, if one was raised
Acc(errors, warnings) == [errors |-> errors, warnings |-> warnings, exc |-> "none"]
Err(acc, msg) == IF acc.exc # "none" THEN acc ELSE [acc EXCEPT !.errors = Append(@, msg)]
Warn(acc, msg) == IF acc.exc # "none" THEN acc ELSE [acc EXCEPT !.warnings = Append(@, msg)]
Raise(acc, e) == IF acc.exc # "none" THEN acc ELSE [acc EXCEPT !.exc = e]

(* ------------------------------ documents ------------------------------ *)
Delim == "---"
TextSeg == "text"

\* content.startswith('---')
StartsWithDelim(segs) == Len(segs) > 0 /\ segs[1] = Delim

\* content.split('---', maxsplit): the parts, each the segments it is made of
RECURSIVE SplitSegs(_, _)
SplitSegs(segs, maxsplit) ==
    LET hits == {i \in 1..Len(segs) : segs[i] = Delim}
        first == CHOOSE i \in hits : \A j \in hits : i <= j
    IN IF maxsplit = 0 \/ hits = {}
       THEN <<segs>>
       ELSE <<SubSeq(segs, 1, first - 1)>>
                \o SplitSegs(SubSeq(segs, first + 1, Len(segs)), maxsplit - 1)

EmptyMapping ==
    [name |-> Absent, description |-> Absent, dmi |-> Absent, ui |-> Absent, other |-> <<>>]

\* what yaml.safe_load returns
Decoded(t, m, items) == [t |-> t, m |-> m, items |-> items]
NoneValue == Decoded("none", EmptyMapping, <<>>)

\* the YAML text between the first two delimiters
EmptySource == [k |-> "empty", v |-> NoneValue]

\* yaml.safe_load(source): the value, or YAMLError
SafeLoad(source) ==
    CASE source.k = "malformed" -> [exc |-> "YAMLError", value |-> NoneValue]
      [] source.k \in {"empty", "blank"} -> [exc |-> "none", value |-> NoneValue]
      [] OTHER -> [exc |-> "none", value |-> source.v]

\* the text of parts[1]
BlockSource(content, part) == IF part = <<>> THEN EmptySource ELSE content.block

\* len(content.split('\n'))
LineCount(content) == content.nl + 1

(* ------------------------- SkillValidator checks ----------------------- *)
\* a path that does not exist
MissingEntry == "missing"

\* (self.skill_path / "SKILL.md").exists()
SkillMdExists(e) == e.kind = "dir" /\ e.skill_md # "missing"

\* _validate_folder_structure, were the missing SKILL.md not to end it
FolderStructureErrorsNoReturn(e, folder) ==
    IF e.kind = MissingEntry THEN <<FolderMissingMsg(folder)>>
    ELSE IF e.kind # "dir" THEN <<NotADirectoryMsg(folder)>>
    ELSE (IF ~SkillMdExists(e) THEN <<SkillMdMissingMsg(folder)>> ELSE <<>>)
           \o (IF ~NamePatternMatch(folder) THEN <<FolderNameMsg(folder)>> ELSE <<>>)

\* _validate_folder_structure: the errors it appends for entry e named folder
FolderStructureErrors(e, folder) ==
    IF e.kind = MissingEntry THEN <<FolderMissingMsg(folder)>>
    ELSE IF e.kind # "dir" THEN <<NotADirectoryMsg(folder)>>
    ELSE IF ~SkillMdExists(e) THEN <<SkillMdMissingMsg(folder)>>
    ELSE IF ~NamePatternMatch(folder) THEN <<FolderNameMsg(folder)>>
    ELSE <<>>

\* the line-count check, were it to warn from MAX_LINES lines on
LineCountWarningsFromMax(content) ==
    IF LineCount(content) >= MAX_LINES THEN <<LineCountMsg(LineCount(content))>> ELSE <<>>

\* the line-count check of _validate_skill_md: the warnings it appends
LineCountWarnings(content) ==
    IF LineCount(content) > MAX_LINES THEN <<LineCountMsg(LineCount(content))>> ELSE <<>>

\* _parse_frontmatter, were it not to test how the text starts
ParseFrontmatterAnywhere(content) ==
    LET parts == SplitSegs(content.segs, 2)
        loaded == SafeLoad(BlockSource(content, parts[2]))
    IN IF Len(parts) < 3 THEN [value |-> NoneValue, errors |-> <<>>]
       ELSE IF loaded.exc = "YAMLError"
            THEN [value |-> NoneValue, errors |-> <<YamlErrorMsg>>]
       ELSE [value |-> loaded.value, errors |-> <<>>]

\* _parse_frontmatter: the value returned (NoneValue for None) and the errors
\* it appends itself
ParseFrontmatter(content) ==
    LET parts == SplitSegs(content.segs, 2)
        loaded == SafeLoad(BlockSource(content, parts[2]))
    IN IF ~StartsWithDelim(content.segs) THEN [value |-> NoneValue, errors |-> <<>>]
       ELSE IF Len(parts) < 3 THEN [value |-> NoneValue, errors |-> <<>>]
       ELSE IF loaded.exc = "YAMLError"
            THEN [value |-> NoneValue, errors |-> <<YamlErrorMsg>>]
       ELSE [value |-> loaded.value, errors |-> <<>>]

\* frontmatter.get(key)
Get(v) == IF v.t = "absent" THEN None ELSE v

\* the keys `for key in frontmatter` yields, in order
Keys(fm) ==
    IF fm.t = "dict"
    THEN (IF fm.m.name.t # "absent" THEN <<"name">> ELSE <<>>)
         \o (IF fm.m.description.t # "absent" THEN <<"description">> ELSE <<>>)
         \o (IF fm.m.dmi.t # "absent" THEN <<"disable-model-invocation">> ELSE <<>>)
         \o (IF fm.m.ui.t # "absent" THEN <<"user-invocable">> ELSE <<>>)
         \o fm.m.other
    ELSE fm.items

\* the loop over the keys: one warning per unknown key
RECURSIVE CheckKeys(_, _)
CheckKeys(keys, acc) ==
    IF keys = <<>> THEN acc
    ELSE CheckKeys(Tail(keys),
                   IF Head(keys) \notin VALID_FRONTMATTER_KEYS
                   THEN Warn(acc, UnknownKeyMsg(Head(keys))) ELSE acc)

CheckUnknownKeys(fm, acc) ==
    IF fm.t \in {"dict", "list", "str"} THEN CheckKeys(Keys(fm), acc)
    ELSE Raise(acc, "TypeError")

\* the 'name' field
CheckName(fm, folder, acc) ==
    LET name == Get(fm.m.name)
        a1 == IF ~HasLen(name) THEN Raise(acc, "TypeError") ELSE acc
        a2 == IF HasLen(name) /\ PyLen(name) > MAX_NAME_LENGTH
              THEN Err(a1, NameTooLongMsg(Text(name))) ELSE a1
        a3 == IF name.t # "str" THEN Raise(a2, "TypeError") ELSE a2
        a4 == IF name.t = "str" /\ ~NamePatternMatch(Text(name))
              THEN Err(a3, NameInvalidMsg(Text(name))) ELSE a3
        a5 == IF name.t # "str" \/ Text(name) # folder
              THEN Warn(a4, NameMismatchMsg(Text(name), folder)) ELSE a4
    IN IF fm.t # "dict" THEN Raise(acc, "AttributeError")
       ELSE IF Truthy(name) THEN a5
       ELSE Warn(acc, NoNameMsg)

\* the 'description' field
CheckDescription(fm, acc) ==
    LET description == Get(fm.m.description)
        lower == Lower(Text(description))
        a1 == IF ~HasLen(description) THEN Raise(acc, "TypeError") ELSE acc
        a2 == IF HasLen(description) /\ PyLen(description) > MAX_DESCRIPTION_LENGTH
              THEN Err(a1, DescriptionTooLongMsg) ELSE a1
        a3 == IF description.t # "str" THEN Raise(a2, "AttributeError") ELSE a2
        a4 == IF description.t = "str"
                 /\ ~Contains(lower, <<"u", "s", "e", " ", "w", "h", "e", "n">>)
              THEN Warn(a3, NoUseWhenMsg) ELSE a3
        a5 == IF description.t = "str"
                 /\ (\/ StartsWith(lower, <<"i", " ">>)
                     \/ StartsWith(lower, <<"i", "'">>)
                     \/ StartsWith(lower, <<"w", "e", " ">>))
              THEN Warn(a4, FirstPersonMsg) ELSE a4
    IN IF acc.exc # "none" THEN acc
       ELSE IF Truthy(description) THEN a5
       ELSE Err(acc, NoDescriptionMsg)

\* one of the boolean fields
CheckBoolean(field, v, acc) ==
    IF Get(v).t # "none" /\ Get(v).t # "bool" THEN Err(acc, NotBooleanMsg(field)) ELSE acc

\* _validate_frontmatter on accumulators acc
ValidateFrontmatter(fm, folder, acc) ==
    IF fm.t = "none" THEN acc
    ELSE LET a1 == CheckUnknownKeys(fm, acc)
             a2 == IF a1.exc # "none" THEN a1 ELSE CheckName(fm, folder, a1)
             a3 == IF a2.exc # "none" THEN a2 ELSE CheckDescription(fm, a2)
             a4 == IF a3.exc # "none" THEN a3
                   ELSE CheckBoolean("disable-model-invocation", fm.m.dmi, a3)
         IN IF a4.exc # "none" THEN a4
            ELSE CheckBoolean("user-invocable", fm.m.ui, a4)

\* recommended_sections: <<section name, pattern>>
RecommendedSections ==
    << <<"When to Use", "when to use">>, <<"Quick Start", "quick start">>,
       <<"Examples", "example">> >>

RECURSIVE CheckSections(_, _, _)
CheckSections(sections, content, acc) ==
    IF sections = <<>> THEN acc
    ELSE CheckSections(Tail(sections), content,
                       IF Head(sections)[2] \notin content.secs
                       THEN Warn(acc, MissingSectionMsg(Head(sections)[1])) ELSE acc)

\* _validate_content on accumulators acc
ValidateContent(content, acc) ==
    LET a1 == CheckSections(RecommendedSections, content, acc)
    IN IF content.deep THEN Warn(a1, DeepReferenceMsg) ELSE a1

(* ------------------------------- inputs -------------------------------- *)
MySkill == <<"m", "y", "-", "s", "k", "i", "l", "l">>
BadName == <<"B", "a", "d", "_", "N", "a", "m", "e">>
FolderNames == {MySkill, BadName}

UseWhen == <<"U", "s", "e", " ", "w", "h", "e", "n">>

NameValues ==
    { Absent, None, PyStr(<<>>), PyStr(MySkill), PyStr(Lower(BadName)),
      Padded(<<"a">>, MAX_NAME_LENGTH), PyInt(7), PyList(1) }

DescriptionValues ==
    { Absent, PyStr(<<>>), PyStr(UseWhen), PyStr(<<"I", " ", "x">>),
      PyStr(<<"W", "e", " ">> \o UseWhen),
      Padded(UseWhen, MAX_DESCRIPTION_LENGTH - Len(UseWhen) + 1), PyInt(7), PyList(1) }

DmiValues == { Absent, PyBool(TRUE), PyStr(<<"y", "e", "s">>) }
UiValues == { Absent, PyInt(1) }

OtherKeys == { "license", "version" }
OtherKeySeqs ==
    UNION { { s \in [1..n -> OtherKeys] : \A i, j \in 1..n : i # j => s[i] # s[j] }
            : n \in 0..MaxOtherKeys }

Mappings ==
    [name : NameValues, description : DescriptionValues, dmi : DmiValues,
     ui : UiValues, other : OtherKeySeqs]

\* a mapping with nothing to report in folder my-skill
CleanMapping ==
    [name |-> PyStr(MySkill), description |-> PyStr(UseWhen), dmi |-> Absent,
     ui |-> Absent, other |-> <<>>]

DecodedValues ==
    { Decoded("dict", m, <<>>) : m \in Mappings }
      \cup { Decoded("list", EmptyMapping, <<"item", "name">>),
             Decoded("str", EmptyMapping, <<"v", "1">>),
             Decoded("int", EmptyMapping, <<>>) }

Blocks ==
    { [k |-> "blank", v |-> NoneValue], [k |-> "malformed", v |-> NoneValue] }
      \cup { [k |-> "doc", v |-> v] : v \in DecodedValues }

CoreBlocks ==
    { [k |-> "doc", v |-> Decoded("dict", CleanMapping, <<>>)],
      [k |-> "doc", v |-> Decoded("dict", EmptyMapping, <<>>)],
      [k |-> "malformed", v |-> NoneValue] }

SectionPatterns == { RecommendedSections[i][2] : i \in 1..Len(RecommendedSections) }

\* what the checks read off the text besides its segments: the number of
\* newlines, the section patterns its lower case contains, and whether the
\* deep-reference pattern is found in it
Features == [nl : {0, MAX_LINES - 1, MAX_LINES}, secs : SUBSET SectionPatterns, deep : BOOLEAN]
NoFeatures == [nl |-> 0, secs |-> {}, deep |-> FALSE]
CoreFeatures ==
    { [nl |-> 0, secs |-> SectionPatterns, deep |-> FALSE],
      [nl |-> MAX_LINES, secs |-> {"example"}, deep |-> TRUE] }

\* documents as sequences of delimiters and delimiter-free texts
SegShapes ==
    UNION { { s \in [1..n -> {Delim, TextSeg}] :
                \A i \in 1..(n - 1) : ~(s[i] = TextSeg /\ s[i + 1] = TextSeg) }
            : n \in 0..MaxSegs }

HasText(segs) == \E i \in 1..Len(segs) : segs[i] = TextSeg
\* a text lies between the first two delimiters
HasBlockText(segs) ==
    Len(SplitSegs(segs, 2)) = 3 /\ SplitSegs(segs, 2)[2] = <<TextSeg>>

Content(segs, block, f) ==
    [segs |-> segs, block |-> block, nl |-> f.nl, secs |-> f.secs, deep |-> f.deep]

Contents ==
    { Content(segs, EmptySource, NoFeatures) : segs \in {s \in SegShapes : ~HasText(s)} }
      \cup { Content(segs, EmptySource, f) :
                segs \in {s \in SegShapes : HasText(s) /\ ~HasBlockText(s)},
                f \in CoreFeatures }
      \cup { Content(segs, block, f) :
                segs \in {s \in SegShapes : HasBlockText(s) /\ ~StartsWithDelim(s)},
                block \in CoreBlocks, f \in CoreFeatures }
      \cup { Content(segs, block, f) :
                segs \in {s \in SegShapes : HasBlockText(s) /\ StartsWithDelim(s)},
                block \in Blocks, f \in CoreFeatures }
      \cup { Content(segs, block, f) :
                segs \in {s \in SegShapes : HasBlockText(s) /\ StartsWithDelim(s)},
                block \in CoreBlocks, f \in Features }

NoContent == Content(<<>>, EmptySource, NoFeatures)

FileEntry == [kind |-> "file", skill_md |-> "missing", content |-> NoContent]
BareDirEntry == [kind |-> "dir", skill_md |-> "missing", content |-> NoContent]
UnreadableEntry == [kind |-> "dir", skill_md |-> "unreadable", content |-> NoContent]
SkillEntry(content) == [kind |-> "dir", skill_md |-> "file", content |-> content]
NoEntry == [kind |-> MissingEntry, skill_md |-> "missing", content |-> NoContent]

Entries ==
    { FileEntry, BareDirEntry, UnreadableEntry } \cup { SkillEntry(c) : c \in Contents }

\* the entries of the skills directory in an --all run
CleanContent ==
    Content(<<Delim, TextSeg, Delim>>, [k |-> "doc", v |-> Decoded("dict", CleanMapping, <<>>)],
            [nl |-> 0, secs |-> SectionPatterns, deep |-> FALSE])
RaisingContent ==
    Content(<<Delim, TextSeg, Delim>>,
            [k |-> "doc", v |-> Decoded("dict", [CleanMapping EXCEPT !.name = PyInt(7)], <<>>)],
            [nl |-> 0, secs |-> SectionPatterns, deep |-> FALSE])
AllEntries == { FileEntry, BareDirEntry, SkillEntry(CleanContent), SkillEntry(RaisingContent) }
AllNames == { <<".", "h">>, MySkill, <<"a">>, <<"b">>, <<"c">> }

(* --------------------------- sorting of paths -------------------------- *)
\* the characters of the inputs in code point order
CodePointOrder ==
    << "\n", " ", "'", "-", ".", "/", "0", "1", "2", "3", "4", "5", "6", "7", "8", "9",
       "B", "I", "N", "U", "W", "_", "a", "b", "c", "d", "e", "f", "g", "h", "i", "j",
       "k", "l", "m", "n", "o", "p", "q", "r", "s", "t", "u", "v", "w", "x", "y", "z" >>

Ord(c) == CHOOSE i \in 1..Len(CodePointOrder) : CodePointOrder[i] = c

\* a < b for two names of one directory
RECURSIVE NameLess(_, _)
NameLess(a, b) ==
    IF b = <<>> THEN FALSE
    ELSE IF a = <<>> THEN TRUE
    ELSE IF Head(a) = Head(b) THEN NameLess(Tail(a), Tail(b))
    ELSE Ord(Head(a)) < Ord(Head(b))

\* the entries in descending order
RECURSIVE SortedDescending(_)
SortedDescending(names) ==
    IF names = {} THEN <<>>
    ELSE LET greatest == CHOOSE a \in names : \A b \in names \ {a} : NameLess(b, a)
         IN <<greatest>> \o SortedDescending(names \ {greatest})

\* sorted(skills_path.iterdir())
RECURSIVE Sorted(_)
Sorted(names) ==
    IF names = {} THEN <<>>
    ELSE LET least == CHOOSE a \in names : \A b \in names \ {a} : NameLess(a, b)
         IN <<least>> \o Sorted(names \ {least})

(* -------------------------------- state -------------------------------- *)
VARIABLES
    argv,          \* the command line: [kind, path]
    root,          \* the skills directory: "missing", "file" or "dir"
    fs,            \* the entries the run can look at: name -> entry
    pc,            \* the statement the program is at
    todo,          \* validate_all_skills: the sorted folders not yet visited
    all_valid,     \* validate_all_skills.all_valid
    skill_count,   \* validate_all_skills.skill_count
    error_count,   \* validate_all_skills.error_count
    skill_path,    \* SkillValidator.skill_path (its base name)
    errors,        \* SkillValidator.errors
    warnings,      \* SkillValidator.warnings
    content,       \* _validate_skill_md: the text read
    frontmatter,   \* _validate_skill_md: the value _parse_frontmatter returned
    result,        \* what validate() returned
    stages,        \* the checks the current validator has executed, in order
    out,           \* the lines printed
    exc,           \* the exception that ended the process, or "none"
    exit_status    \* the exit status of the process, -1 while it runs

vars ==
    << argv, root, fs, pc, todo, all_valid, skill_count, error_count, skill_path,
       errors, warnings, content, frontmatter, result, stages, out, exc, exit_status >>

NoResult == [returned |-> FALSE, is_valid |-> FALSE, errors |-> <<>>, warnings |-> <<>>]

\* one printed line
Line(text, path, msgs, a, b) == [text |-> text, path |-> path, msgs |-> msgs, a |-> a, b |-> b]

Lookup(name) == IF name \in DOMAIN fs THEN fs[name] ELSE NoEntry

InitLocals ==
    /\ pc = "main"
    /\ todo = <<>>
    /\ all_valid = TRUE
    /\ skill_count = 0
    /\ error_count = 0
    /\ skill_path = <<>>
    /\ errors = <<>>
    /\ warnings = <<>>
    /\ content = NoContent
    /\ frontmatter = NoneValue
    /\ result = NoResult
    /\ stages = <<>>
    /\ out = <<>>
    /\ exc = "none"
    /\ exit_status = -1

\* validate-skill.py <skill-path>
InitOne ==
    /\ \E p \in FolderNames :
          /\ argv = [kind |-> "path", path |-> p]
          /\ \/ fs = << >>
             \/ \E e \in Entries : fs = [n \in {p} |-> e]
    /\ root = "missing"
    /\ InitLocals

\* validate-skill.py --all
InitAll ==
    /\ argv = [kind |-> "all", path |-> <<>>]
    /\ \/ root \in {"missing", "file"} /\ fs = << >>
       \/ /\ root = "dir"
          /\ \E names \in SUBSET AllNames :
                /\ Cardinality(names) <= MaxEntries
                /\ fs \in [names -> AllEntries]
    /\ InitLocals

\* validate-skill.py, validate-skill.py --help
InitUsage ==
    /\ argv \in {[kind |-> "none", path |-> <<>>], [kind |-> "help", path |-> <<>>]}
    /\ root = "missing"
    /\ fs = << >>
    /\ InitLocals

Init == InitOne \/ InitAll \/ InitUsage

(* ------------------------------- actions ------------------------------- *)
\* an uncaught exception ends the process with a traceback and status 1
Uncaught(e) ==
    /\ exc' = e
    /\ exit_status' = 1
    /\ pc' = "exited"

\* sys.exit(status)
Exit(status) ==
    /\ exc' = exc
    /\ exit_status' = status
    /\ pc' = "exited"

\* main, up to the call it makes
Main ==
    /\ pc = "main"
    /\ CASE argv.kind = "none" ->
              /\ out' = Append(out, Line("usage", <<>>, <<>>, 0, 0))
              /\ Exit(1)
         [] argv.kind = "help" ->
              /\ out' = Append(out, Line("usage", <<>>, <<>>, 0, 0))
              /\ Exit(0)
         [] argv.kind = "all" ->
              /\ pc' = "validate_all"
              /\ UNCHANGED <<out, exc, exit_status>>
         [] OTHER ->
              /\ pc' = "validate_skill"
              /\ UNCHANGED <<out, exc, exit_status>>
    /\ UNCHANGED <<argv, root, fs, todo, all_valid, skill_count, error_count, skill_path, errors,
                   warnings, content, frontmatter, result, stages>>

\* validate_all_skills, up to its loop
ValidateAllSkills ==
    /\ pc = "validate_all"
    /\ CASE root = "missing" ->
              /\ out' = Append(out, Line("Skills directory not found", <<>>, <<>>, 0, 0))
              /\ Exit(1)
              /\ UNCHANGED todo
         [] root = "file" ->
              /\ Uncaught("NotADirectoryError")
              /\ UNCHANGED <<out, todo>>
         [] OTHER ->
              /\ todo' = Sorted(DOMAIN fs)
              /\ pc' = "loop"
              /\ UNCHANGED <<out, exc, exit_status>>
    /\ all_valid' = TRUE
    /\ skill_count' = 0
    /\ error_count' = 0
    /\ UNCHANGED <<argv, root, fs, skill_path, errors, warnings, content, frontmatter,
                   result, stages>>

\* one turn of the loop of validate_all_skills, and what follows the loop
Loop ==
    /\ pc = "loop"
    /\ IF todo = <<>>
       THEN /\ out' = Append(out, Line("SUMMARY", <<>>, <<>>,
                                       skill_count - error_count, skill_count))
            /\ Exit(IF all_valid THEN 0 ELSE 1)
            /\ UNCHANGED <<todo, skill_count>>
       ELSE IF Lookup(Head(todo)).kind = "dir" /\ Head(Head(todo)) # "."
       THEN /\ skill_count' = skill_count + 1
            /\ pc' = "validate_skill"
            /\ UNCHANGED <<todo, out, exc, exit_status>>
       ELSE /\ todo' = Tail(todo)
            /\ UNCHANGED <<pc, skill_count, out, exc, exit_status>>
    /\ UNCHANGED <<argv, root, fs, all_valid, error_count, skill_path, errors, warnings, content,
                   frontmatter, result, stages>>

\* validate_skill, up to the call of validate: the heading, a new validator
ValidateSkill ==
    /\ pc = "validate_skill"
    /\ skill_path' = IF argv.kind = "all" THEN Head(todo) ELSE argv.path
    /\ out' = Append(out, Line("Validating: ", skill_path', <<>>, 0, 0))
    /\ errors' = <<>>
    /\ warnings' = <<>>
    /\ content' = NoContent
    /\ frontmatter' = NoneValue
    /\ result' = NoResult
    /\ stages' = <<>>
    /\ pc' = "folder_structure"
    /\ UNCHANGED <<argv, root, fs, todo, all_valid, skill_count, error_count, exc,
                   exit_status>>

\* _validate_folder_structure
ValidateFolderStructure ==
    /\ pc = "folder_structure"
    /\ errors' = errors \o FolderStructureErrors(Lookup(skill_path), skill_path)
    /\ stages' = Append(stages, "folder_structure")
    /\ pc' = "skill_md"
    /\ UNCHANGED <<argv, root, fs, todo, all_valid, skill_count, error_count, skill_path,
                   warnings, content, frontmatter, result, out, exc, exit_status>>

\* _validate_skill_md, were it to give up once an error is recorded
ValidateSkillMdStopOnError ==
    /\ pc = "skill_md"
    /\ LET e == Lookup(skill_path)
       IN IF ~SkillMdExists(e) \/ errors # <<>>
          THEN /\ pc' = "return"
               /\ UNCHANGED <<content, warnings, stages, exc, exit_status>>
          ELSE IF e.skill_md = "unreadable"
          THEN /\ Uncaught("OSError")
               /\ UNCHANGED <<content, warnings, stages>>
          ELSE /\ content' = e.content
               /\ warnings' = warnings \o LineCountWarnings(e.content)
               /\ stages' = Append(stages, "line_count")
               /\ pc' = "parse"
               /\ UNCHANGED <<exc, exit_status>>
    /\ UNCHANGED <<argv, root, fs, todo, all_valid, skill_count, error_count, skill_path,
                   errors, frontmatter, result, out>>

\* _validate_skill_md, up to the call of _parse_frontmatter
ValidateSkillMd ==
    /\ pc = "skill_md"
    /\ LET e == Lookup(skill_path)
       IN IF ~SkillMdExists(e)
          THEN /\ pc' = "return"
               /\ UNCHANGED <<content, warnings, stages, exc, exit_status>>
          ELSE IF e.skill_md = "unreadable"
          THEN /\ Uncaught("OSError")
               /\ UNCHANGED <<content, warnings, stages>>
          ELSE /\ content' = e.content
               /\ warnings' = warnings \o LineCountWarnings(e.content)
               /\ stages' = Append(stages, "line_count")
               /\ pc' = "parse"
               /\ UNCHANGED <<exc, exit_status>>
    /\ UNCHANGED <<argv, root, fs, todo, all_valid, skill_count, error_count, skill_path,
                   errors, frontmatter, result, out>>

\* _parse_frontmatter and the test of what it returned
ParseStep ==
    /\ pc = "parse"
    /\ LET r == ParseFrontmatter(content)
       IN /\ frontmatter' = r.value
          /\ IF r.value.t = "none"
             THEN /\ errors' = (errors \o r.errors) \o <<NoFrontmatterMsg>>
                  /\ pc' = "return"
             ELSE /\ errors' = errors \o r.errors
                  /\ pc' = "frontmatter"
    /\ stages' = Append(stages, "parse")
    /\ UNCHANGED <<argv, root, fs, todo, all_valid, skill_count, error_count, skill_path,
                   warnings, content, result, out, exc, exit_status>>

\* _validate_frontmatter
FrontmatterStep ==
    /\ pc = "frontmatter"
    /\ LET a == ValidateFrontmatter(frontmatter, skill_path, Acc(errors, warnings))
       IN /\ errors' = a.errors
          /\ warnings' = a.warnings
          /\ IF a.exc # "none"
             THEN Uncaught(a.exc)
             ELSE pc' = "content" /\ UNCHANGED <<exc, exit_status>>
    /\ stages' = Append(stages, "frontmatter")
    /\ UNCHANGED <<argv, root, fs, todo, all_valid, skill_count, error_count, skill_path,
                   content, frontmatter, result, out>>

\* _validate_content
ContentStep ==
    /\ pc = "content"
    /\ LET a == ValidateContent(content, Acc(errors, warnings))
       IN /\ errors' = a.errors
          /\ warnings' = a.warnings
    /\ stages' = Append(stages, "content")
    /\ pc' = "return"
    /\ UNCHANGED <<argv, root, fs, todo, all_valid, skill_count, error_count, skill_path,
                   content, frontmatter, result, out, exc, exit_status>>

\* validate, were warnings to count against validity
OutcomeWarningsCount(errs, warns) ==
    [returned |-> TRUE, is_valid |-> Len(errs) = 0 /\ Len(warns) = 0,
     errors |-> errs, warnings |-> warns]

\* the tuple validate returns
Outcome(errs, warns) ==
    [returned |-> TRUE, is_valid |-> Len(errs) = 0, errors |-> errs, warnings |-> warns]

\* the return statement of validate
ValidateReturn ==
    /\ pc = "return"
    /\ result' = Outcome(errors, warnings)
    /\ pc' = "report"
    /\ UNCHANGED <<argv, root, fs, todo, all_valid, skill_count, error_count, skill_path,
                   errors, warnings, content, frontmatter, stages, out, exc, exit_status>>

\* what validate_skill prints
Report(r) ==
    (IF r.errors # <<>> THEN <<Line("ERRORS", <<>>, r.errors, 0, 0)>> ELSE <<>>)
      \o (IF r.warnings # <<>> THEN <<Line("WARNINGS", <<>>, r.warnings, 0, 0)>> ELSE <<>>)
      \o (IF r.is_valid THEN <<Line("Skill is valid!", <<>>, <<>>, 0, 0)>>
          ELSE <<Line("Skill has errors that must be fixed.", <<>>, <<>>, 0, 0)>>)

\* the rest of validate_skill, and what its caller does with the value
ValidateSkillReturn ==
    /\ pc = "report"
    /\ out' = out \o Report(result)
    /\ IF argv.kind = "all"
       THEN /\ error_count' = IF result.is_valid THEN error_count ELSE error_count + 1
            /\ all_valid' = (all_valid /\ result.is_valid)
            /\ todo' = Tail(todo)
            /\ pc' = "loop"
            /\ UNCHANGED <<exc, exit_status>>
       ELSE /\ Exit(IF result.is_valid THEN 0 ELSE 1)
            /\ UNCHANGED <<error_count, all_valid, todo>>
    /\ UNCHANGED <<argv, root, fs, skill_count, skill_path, errors, warnings, content,
                   frontmatter, result, stages>>

Next ==
    \/ Main
    \/ ValidateAllSkills
    \/ Loop
    \/ ValidateSkill
    \/ ValidateFolderStructure
    \/ ValidateSkillMd
    \/ ParseStep
    \/ FrontmatterStep
    \/ ContentStep
    \/ ValidateReturn
    \/ ValidateSkillReturn

Spec == Init /\ [][Next]_vars

(* ------------------------------- claims -------------------------------- *)
\* the entry the current validator looks at
Target == Lookup(skill_path)

\* SKILL.md is there and can be read
Readable(e) == SkillMdExists(e) /\ e.skill_md = "file"

Texts(msgs) == { msgs[i].m : i \in 1..Len(msgs) }
Has(msgs, msg) == \E i \in 1..Len(msgs) : msgs[i] = msg

\* C1: whenever validate has returned, is_valid is true exactly if the
\* returned error list is empty, whatever the returned warnings are.
C1_ValidIffNoErrors ==
    result.returned => (result.is_valid <=> result.errors = <<>>)

\* C1 witness: a run returned valid together with warnings
C1_Witness ==
    result.returned /\ result.is_valid /\ Len(result.warnings) >= 2

\* C2: when the path does not exist, is not a directory, or is a directory
\* without SKILL.md, the run records nothing but the one matching error:
\* no warning, no check after the folder structure check, and the folder
\* name is not judged.
C2_FatalStructureShortCircuits ==
    LET e == Target
        fatal == e.kind = MissingEntry \/ e.kind = "file"
                   \/ (e.kind = "dir" /\ e.skill_md = "missing")
        expected ==
            IF e.kind = MissingEntry THEN "Skill folder does not exist: "
            ELSE IF e.kind = "file" THEN "Path is not a directory: "
            ELSE "SKILL.md not found in "
    IN (fatal /\ stages # <<>>) =>
          /\ warnings = <<>>
          /\ stages = <<"folder_structure">>
          /\ pc \notin {"parse", "frontmatter", "content"}
          /\ exc = "none"
          /\ Len(errors) = 1
          /\ errors[1].m = expected
          /\ result.returned =>
                /\ Len(result.errors) = 1
                /\ result.errors[1].m = expected
                /\ result.warnings = <<>>
                /\ ~result.is_valid

\* C2 witness: a run on a directory with a malformed name and no SKILL.md
\* has returned
C2_Witness ==
    /\ result.returned
    /\ Target.kind = "dir"
    /\ Target.skill_md = "missing"
    /\ ~NamePatternMatch(skill_path)

\* C3 as stated: a SKILL.md whose text does not start with `---` gives
\* exactly the one error "Invalid or missing YAML frontmatter".
C3_Original ==
    (result.returned /\ Readable(Target) /\ ~StartsWithDelim(Target.content.segs)) =>
        result.errors = <<NoFrontmatterMsg>>

\* C3 amended: a SKILL.md whose text does not start with `---` gives the
\* folder name error, if the folder name is malformed, followed by the one
\* error "Invalid or missing YAML frontmatter" and no other error; neither
\* the frontmatter checks nor the content checks execute; the only warning
\* possible is the line count warning; and the run returns.
C3_NoLeadingDelimiter ==
    (Readable(Target) /\ ~StartsWithDelim(Target.content.segs)) =>
        /\ pc \notin {"frontmatter", "content"}
        /\ \A i \in 1..Len(stages) : stages[i] \notin {"frontmatter", "content"}
        /\ exc = "none"
        /\ Texts(warnings) \subseteq {"SKILL.md has n lines"}
        /\ result.returned =>
              /\ result.errors =
                    (IF NamePatternMatch(skill_path) THEN <<>>
                     ELSE <<FolderNameMsg(skill_path)>>) \o <<NoFrontmatterMsg>>
              /\ ~result.is_valid

\* C3 witness: a run on a text that holds a delimited block but does not
\* start with the delimiter has returned
C3_Witness ==
    /\ result.returned
    /\ Readable(Target)
    /\ ~StartsWithDelim(Target.content.segs)
    /\ Len(SplitSegs(Target.content.segs, 2)) = 3
    /\ NamePatternMatch(skill_path)

\* the two delimiters are there and the text between them does not decode
DecodeFails(c) ==
    /\ StartsWithDelim(c.segs)
    /\ Len(SplitSegs(c.segs, 2)) = 3
    /\ BlockSource(c, SplitSegs(c.segs, 2)[2]).k = "malformed"

\* the two delimiters are there and the text between them is blank
BlankBlock(c) ==
    /\ StartsWithDelim(c.segs)
    /\ Len(SplitSegs(c.segs, 2)) = 3
    /\ BlockSource(c, SplitSegs(c.segs, 2)[2]).k \in {"empty", "blank"}

\* C4: a block that fails to decode records "YAML parsing error" as its
\* only parse error; "Invalid or missing YAML frontmatter" is recorded only
\* when the text has no leading delimiter or splits into fewer than three
\* parts; and after a parse failure no frontmatter or content check runs.
C4_SingleParseError ==
    (result.returned /\ Readable(Target)) =>
        LET c == Target.content
        IN /\ DecodeFails(c) =>
                /\ Has(result.errors, YamlErrorMsg)
                /\ ~Has(result.errors, NoFrontmatterMsg)
                /\ \A i \in 1..Len(stages) : stages[i] \notin {"frontmatter", "content"}
           /\ Has(result.errors, NoFrontmatterMsg) =>
                \/ ~StartsWithDelim(c.segs)
                \/ Len(SplitSegs(c.segs, 2)) < 3

\* C5: a text that starts with the delimiter, holds a second one and has a
\* blank block between them is checked as the empty mapping: the missing
\* description error and the missing name warning are recorded, the
\* frontmatter error is not.
C5_BlankBlockIsEmptyMapping ==
    (result.returned /\ Readable(Target) /\ BlankBlock(Target.content)) =>
        /\ Has(result.errors, NoDescriptionMsg)
        /\ Has(result.warnings, NoNameMsg)
        /\ ~Has(result.errors, NoFrontmatterMsg)
        /\ \E i \in 1..Len(stages) : stages[i] = "content"

\* C6: a run on a readable SKILL.md raises nothing, and once the process
\* has exited validate has returned.
C6_RunAlwaysReturns ==
    (Readable(Target) /\ stages # <<>>) =>
        /\ exc = "none"
        /\ pc = "exited" => result.returned

\* C7: once the frontmatter checks have run on a mapping whose description
\* is absent or empty, the missing description error is recorded.
C7_MissingDescriptionReported ==
    ( /\ \E i \in 1..Len(stages) : stages[i] = "frontmatter"
      /\ frontmatter.t = "dict"
      /\ \/ frontmatter.m.description.t = "absent"
         \/ frontmatter.m.description = PyStr(<<>>) ) =>
        Has(errors, NoDescriptionMsg)

\* C8: with SKILL.md readable in a folder whose name is malformed, the run
\* records the folder name error and goes on: the line count check and the
\* parse run, and so do the frontmatter and content checks when the parse
\* gives a value; for folder Bad_Name and name bad_name the returned run
\* holds the folder name error, the name format error and the mismatch
\* warning.
C8_FolderNameErrorNotFatal ==
    (Readable(Target) /\ ~NamePatternMatch(skill_path)) =>
        /\ pc \notin {"folder_structure", "validate_skill"} /\ stages # <<>> =>
              errors # <<>> /\ errors[1] = FolderNameMsg(skill_path)
        /\ result.returned =>
              /\ Len(stages) >= 3
              /\ SubSeq(stages, 1, 3) = <<"folder_structure", "line_count", "parse">>
              /\ frontmatter.t # "none" =>
                    stages = <<"folder_structure", "line_count", "parse",
                               "frontmatter", "content">>
              /\ ( /\ skill_path = BadName
                   /\ frontmatter.t = "dict"
                   /\ frontmatter.m.name = PyStr(Lower(BadName)) ) =>
                    /\ Has(result.errors, FolderNameMsg(BadName))
                    /\ Has(result.errors, NameInvalidMsg(Lower(BadName)))
                    /\ Len(result.errors) >= 2
                    /\ Has(result.warnings, NameMismatchMsg(Lower(BadName), BadName))
                    /\ Len(result.warnings) >= 1

\* C8 witness: the run on folder Bad_Name with name bad_name has returned
\* with exactly the two errors
C8_Witness ==
    /\ result.returned
    /\ skill_path = BadName
    /\ frontmatter.t = "dict"
    /\ frontmatter.m.name = PyStr(Lower(BadName))
    /\ Len(result.errors) = 2
    /\ Len(result.warnings) = 1

IsHeading(l) == l.text = "Validating: "
IsValidLine(l) == l.text = "Skill is valid!"
IsInvalidLine(l) == l.text = "Skill has errors that must be fixed."

\* the subdirectories of the skills directory whose names do not start with `.`
Eligible == { n \in DOMAIN fs : fs[n].kind = "dir" /\ n[1] # "." }

\* C9: an --all run validates exactly the subdirectories whose names do not
\* start with `.`, in ascending order of name and skipping none, each with
\* empty accumulators at its start; when the loop is over the summary gives
\* the number of valid runs over the number of such subdirectories; and the
\* exit status is 0 exactly if the skills directory was listed, nothing was
\* raised and no run was invalid (so it is 1 when the directory is missing).
C9_ValidateAll ==
    argv.kind = "all" =>
        LET heads == SelectSeq(out, IsHeading)
            nvalid == Len(SelectSeq(out, IsValidLine))
            ninvalid == Len(SelectSeq(out, IsInvalidLine))
        IN /\ \A i \in 1..Len(heads) : heads[i].path \in Eligible
           /\ \A i \in 1..(Len(heads) - 1) : NameLess(heads[i].path, heads[i + 1].path)
           /\ \A i \in 1..Len(heads) : \A n \in Eligible :
                 NameLess(n, heads[i].path) => \E j \in 1..(i - 1) : heads[j].path = n
           /\ pc = "folder_structure" => errors = <<>> /\ warnings = <<>>
           /\ skill_count = Len(heads) \/ (pc = "validate_skill" /\ skill_count = Len(heads) + 1)
           /\ pc = "exited" =>
                 /\ (root = "dir" /\ exc = "none") =>
                       /\ { heads[i].path : i \in 1..Len(heads) } = Eligible
                       /\ skill_count = Cardinality(Eligible)
                       /\ nvalid + ninvalid = Cardinality(Eligible)
                       /\ out[Len(out)] =
                             Line("SUMMARY", <<>>, <<>>, nvalid, Cardinality(Eligible))
                 /\ exit_status = 0 <=> (root = "dir" /\ exc = "none" /\ ninvalid = 0)
                 /\ root = "missing" => exit_status = 1

\* C9 witness: an --all run over three valid folders and one without
\* SKILL.md has ended with the summary 3/4 and exit status 1
C9_Witness ==
    /\ argv.kind = "all"
    /\ pc = "exited"
    /\ Cardinality(Eligible) = 4
    /\ \E n \in Eligible : fs[n] = BareDirEntry
    /\ out[Len(out)] = Line("SUMMARY", <<>>, <<>>, 3, 4)
    /\ exit_status = 1

\* the stage an error is recorded by: structure 1, parse 2, field checks 3
ErrorRank(msg) ==
    IF msg.m \in { "Skill folder does not exist: ", "Path is not a directory: ",
                   "SKILL.md not found in ", "Folder name invalid" } THEN 1
    ELSE IF msg.m \in { "YAML parsing error: ", "Invalid or missing YAML frontmatter" } THEN 2
    ELSE 3

\* the stage a warning is recorded by: line count 1, frontmatter 2, content 3
WarningRank(msg) ==
    IF msg.m = "SKILL.md has n lines" THEN 1
    ELSE IF msg.m \in { "Missing recommended section: ",
                        "Deeply nested file references detected (avoid ../..)" } THEN 3
    ELSE 2

Ordered(msgs, Rank(_)) ==
    \A i, j \in 1..Len(msgs) : i < j => Rank(msgs[i]) <= Rank(msgs[j])

IsPrefix(s, u) == Len(s) <= Len(u) /\ SubSeq(u, 1, Len(s)) = s

C10_Lists ==
    /\ Ordered(errors, ErrorRank)
    /\ Ordered(warnings, WarningRank)
    /\ Cardinality({ i \in 1..Len(warnings) : WarningRank(warnings[i]) = 1 }) <= 1
    /\ (\E i \in 1..Len(stages) : stages[i] = "line_count") =>
          /\ (\E i \in 1..Len(warnings) : WarningRank(warnings[i]) = 1)
                <=> (Target.content.nl + 1 > 500)
          /\ Len(stages) >= 3 => stages[2] = "line_count" /\ stages[3] = "parse"
    /\ (\A i \in 1..Len(stages) : stages[i] # "line_count") =>
          \A i \in 1..Len(warnings) : WarningRank(warnings[i]) # 1

\* C10: within a run the two lists only grow at their ends; structure
\* errors come before parse errors and those before field errors; the line
\* count warning is there exactly if the text has more than 500 lines, once,
\* before every frontmatter warning, those before every content warning,
\* and it is recorded before the parse, whatever the parse gives.
C10_AppendOnlyInStageOrder ==
    /\ []C10_Lists
    /\ [][pc # "validate_skill" => IsPrefix(errors, errors') /\ IsPrefix(warnings, warnings')]_vars

\* C10 witness: a returned run holds a structure error and a field error,
\* and the line count warning, a frontmatter warning and a content warning
C10_Witness ==
    /\ result.returned
    /\ { ErrorRank(result.errors[i]) : i \in 1..Len(result.errors) } = {1, 3}
    /\ { WarningRank(result.warnings[i]) : i \in 1..Len(result.warnings) } = {1, 2, 3}

\* a run whose parse failed keeps the line count warning
C10_WitnessParseFailure ==
    /\ result.returned
    /\ Has(result.errors, YamlErrorMsg)
    /\ \E i \in 1..Len(result.warnings) : WarningRank(result.warnings[i]) = 1

====
